---- MODULE Spec2Model ----
(***************************************************************************)
(* Errorify: a chat widget (web/src/App.jsx) and the HTTP proxy            *)
(* (server/server.js) that relays its transcript to the upstream provider. *)
(*                                                                         *)
(* ProxySpec   the proxy's middleware chain and its two POST handlers      *)
(* ExtractSpec the client's extraction of the assistant text               *)
(* ClientSpec  the chat UI: sendMessage, the reply animation, Stop         *)
(***************************************************************************)
EXTENDS Integers, Sequences, FiniteSets, TLC

(* ------------------------------------------------------------------ *)
(* JavaScript values                                                   *)
(* ------------------------------------------------------------------ *)

\* the value of a missing header, query parameter, field or variable
Undefined == "<undefined>"

\* JavaScript truthiness of a string-or-undefined value
Falsy(v) == v = Undefined \/ v = ""

\* a || b
Or(a, b) == IF Falsy(a) THEN b ELSE a

Min(a, b) == IF a < b THEN a ELSE b
Max(a, b) == IF a > b THEN a ELSE b

(* ------------------------------------------------------------------ *)
(* Bounds                                                              *)
(* ------------------------------------------------------------------ *)

\* longest messages array a request carries
MaxMsgs == 13
\* longest messages array of which every content combination is tried
MaxShort == 2

(* ------------------------------------------------------------------ *)
(* State                                                               *)
(* ------------------------------------------------------------------ *)

\* the proxy (server/server.js)
VARIABLES
  BOT_PASSWORD,   \* process.env.BOT_PASSWORD || ""
  rawOrigins,     \* the allowed origins parsed from FRONTEND_ORIGIN
  req,            \* the request being handled
  spc,            \* the middleware or handler the request is at
  res,            \* the response sent for it
  calls,          \* the payloads sent upstream for it
  up,             \* the upstream provider's answer to it
  authNext        \* requirePassword called next() for it

pvars == <<BOT_PASSWORD, rawOrigins, req, spc, res, calls, up, authNext>>

\* the extraction of the reply from a successful response (web/src/App.jsx)
VARIABLES
  data,           \* the envelope res.json() resolved to
  assistantText,  \* the value extracted from it
  epc             \* "start", "parsed" (data is known), "extracted"

evars == <<data, assistantText, epc>>

\* the chat UI (web/src/App.jsx)
VARIABLES
  conversation,   \* useState: the transcript
  input,          \* useState: the composer's text
  loading,        \* useState
  streaming,      \* useState
  streamCancel,   \* useState: 0 (null) or the turn whose cancel closure it holds
  errorBanner,    \* useState
  turns,          \* the sendMessage calls that issued a request, with their closures
  requests        \* the payloads handed to fetch, one per turn

cvars == <<conversation, input, loading, streaming, streamCancel, errorBanner,
           turns, requests>>

vars == <<pvars, evars, cvars>>

(* ------------------------------------------------------------------ *)
(* Proxy: configuration and pure helpers                               *)
(* ------------------------------------------------------------------ *)

\* trimHistory(messages, 12) and max_tokens: 800
TrimMax == 12
MaxTokens == 800

DEFAULT_MODEL == "deepseek-chat-1"

Secret == "s3cret"
AppOrigin == "https://app.example"
EvilOrigin == "https://evil.example"

Msg(role, content) == [role |-> role, content |-> content]

\* messages.slice(-max)
SliceLast(s, max) ==
  IF Len(s) <= max THEN s ELSE SubSeq(s, Len(s) - max + 1, Len(s))

\* a mistaken window: the first max messages
trimHistoryHead(messages, max) ==
  IF messages.kind # "arr" THEN <<>>
  ELSE IF Len(messages.arr) <= max THEN messages.arr ELSE SubSeq(messages.arr, 1, max)

\* a JavaScript value in the messages field: kind is "undef", "str" or "arr"
trimHistory(messages, max) ==
  IF messages.kind # "arr" THEN <<>> ELSE SliceLast(messages.arr, max)

\* JSON.parse on the texts the upstream provider (or the proxy) answers with:
\* ok is FALSE where JSON.parse throws; t is the kind of the parsed value
\*   "errstr"  { error: s }            "errmsg"  { error: { message: s } }
\*   "str"     the JSON string s       "null"    null
JsonVal(t, s) == [ok |-> TRUE, t |-> t, s |-> s]
JsonThrow == [ok |-> FALSE, t |-> "none", s |-> ""]

JSONparse(text) ==
  CASE text = "{\"error\":\"boom\"}" -> JsonVal("errstr", "boom")
    [] text = "{ \"error\" : \"boom\" }" -> JsonVal("errstr", "boom")
    [] text = "{\"error\":{\"message\":\"quota\"}}" -> JsonVal("errmsg", "quota")
    [] text = "\"boom\"" -> JsonVal("str", "boom")
    [] text = "null" -> JsonVal("null", "")
    [] OTHER -> JsonThrow

\* JSON.stringify of a parsed value (what res.json sends)
JSONstringify(v) ==
  CASE v.t = "errstr" -> "{\"error\":\"" \o v.s \o "\"}"
    [] v.t = "errmsg" -> "{\"error\":{\"message\":\"" \o v.s \o "\"}}"
    [] v.t = "str" -> "\"" \o v.s \o "\""
    [] OTHER -> "null"

\* bodies the upstream provider answers with
UpstreamTexts ==
  { "{\"error\":\"boom\"}", "{ \"error\" : \"boom\" }",
    "{\"error\":{\"message\":\"quota\"}}", "\"boom\"", "boom", "",
    "{\"choices\":[{\"message\":{\"content\":\"hi\"}}]}" }

\* statuses the upstream provider answers with; response.ok is 200..299
UpstreamStatuses == {200, 201, 401, 500}
IsOk(status) == status >= 200 /\ status <= 299

(* ------------------------------------------------------------------ *)
(* Proxy: requests and responses                                       *)
(* ------------------------------------------------------------------ *)

Msgs == { Msg("user", "hi"), Msg("assistant", "yo") }

\* every array of at most MaxShort messages
ShortArrays == UNION { [1..n -> Msgs] : n \in 0..MaxShort }

\* arrays of up to MaxMsgs messages, all different (content names the position)
NumberedArray(n) ==
  [i \in 1..n |-> Msg(IF i % 2 = 1 THEN "user" ELSE "assistant", "m" \o ToString(i))]
LongArrays == { NumberedArray(n) : n \in (MaxShort + 1)..MaxMsgs }

\* the messages field: absent, a string, or an array
NotArrays == { [kind |-> "undef", arr |-> <<>>], [kind |-> "str", arr |-> <<>>] }
Arrays(S) == { [kind |-> "arr", arr |-> a] : a \in S }

\* req.body after express.json: "none" (no body: req.body is undefined),
\* "bad" (the JSON does not parse) or "obj" with its messages and model fields
Bodies ==
  { [kind |-> "none", messages |-> [kind |-> "undef", arr |-> <<>>], model |-> Undefined],
    [kind |-> "bad", messages |-> [kind |-> "undef", arr |-> <<>>], model |-> Undefined] }
  \cup { [kind |-> "obj", messages |-> m, model |-> md] :
           m \in NotArrays \cup Arrays(ShortArrays), md \in {Undefined, "deepseek-coder"} }
  \cup { [kind |-> "obj", messages |-> m, model |-> Undefined] : m \in Arrays(LongArrays) }

Requests ==
  [ route : {"/api/chat", "/api/chat-mock"},
    origin : {Undefined, AppOrigin, EvilOrigin},
    header : {Undefined, "", Secret, "wrong"},
    pw : {Undefined, Secret, "wrong"},
    body : Bodies ]

NoRequest ==
  [ route |-> "", origin |-> Undefined, header |-> Undefined, pw |-> Undefined,
    body |-> [kind |-> "none", messages |-> [kind |-> "undef", arr |-> <<>>], model |-> Undefined] ]

\* a response: status 0 means none sent yet.  kind is
\*   "json_error"     res.json({ error: a [, detail: b] })
\*   "json_envelope"  res.json({ choices: [{ message: { content: a } }] })
\*   "json_value"     res.json(parsed), a its serialization
\*   "text"           res.send(a)
\*   "default"        the framework's own error page
Response(status, kind, a, b) == [status |-> status, kind |-> kind, a |-> a, b |-> b]
NoResponse == Response(0, "", "", "")

NoUpstream == [status |-> 0, text |-> ""]

\* a request arrives
Receive(r) ==
  /\ spc = "idle"
  /\ req' = r
  /\ spc' = "json"
  /\ res' = NoResponse
  /\ calls' = <<>>
  /\ up' = NoUpstream
  /\ authNext' = FALSE
  /\ UNCHANGED <<BOT_PASSWORD, rawOrigins>>
  /\ UNCHANGED <<evars, cvars>>

Respond(r) ==
  /\ res' = r
  /\ spc' = "done"

Next_(stage) ==
  /\ spc' = stage
  /\ UNCHANGED res

\* app.use(express.json(...)): a body that does not parse is answered 400
\* by the framework before any later middleware runs
JsonBody ==
  /\ spc = "json"
  /\ IF req.body.kind = "bad"
       THEN Respond(Response(400, "default", "SyntaxError", ""))
       ELSE Next_("cors")
  /\ UNCHANGED <<BOT_PASSWORD, rawOrigins, req, calls, up, authNext>>
  /\ UNCHANGED <<evars, cvars>>

\* the custom CORS middleware
Cors ==
  /\ spc = "cors"
  /\ IF req.origin = Undefined THEN Next_("limit")
     ELSE IF Cardinality(rawOrigins) = 0
       THEN Respond(Response(403, "json_error", "CORS: origin not allowed (no origins configured)", ""))
     ELSE IF req.origin \notin rawOrigins
       THEN Respond(Response(403, "json_error", "CORS: origin not allowed", ""))
     ELSE Next_("limit")
  /\ UNCHANGED <<BOT_PASSWORD, rawOrigins, req, calls, up, authNext>>
  /\ UNCHANGED <<evars, cvars>>

\* app.use("/api/", rateLimit(...)): the limiter lets the request through or
\* answers 429, depending on the requests counted in the current window
RateLimit ==
  /\ spc = "limit"
  /\ \E over \in BOOLEAN :
       IF over THEN Respond(Response(429, "default", "Too many requests", ""))
       ELSE Next_(IF req.route = "/api/chat" THEN "auth" ELSE "mock")
  /\ UNCHANGED <<BOT_PASSWORD, rawOrigins, req, calls, up, authNext>>
  /\ UNCHANGED <<evars, cvars>>

\* const provided = req.headers["x-errorify-password"] || req.query.pw || ""
provided(r) == Or(Or(r.header, r.pw), "")

\* a check that lets every request through
requirePasswordOpen ==
  /\ spc = "auth"
  /\ authNext' = TRUE
  /\ Next_("chat")
  /\ UNCHANGED <<BOT_PASSWORD, rawOrigins, req, calls, up>>
  /\ UNCHANGED <<evars, cvars>>

requirePassword ==
  /\ spc = "auth"
  /\ IF BOT_PASSWORD = "" \/ provided(req) = BOT_PASSWORD
       THEN authNext' = TRUE /\ Next_("chat")
       ELSE authNext' = FALSE /\ Respond(Response(401, "json_error", "Unauthorized", ""))
  /\ UNCHANGED <<BOT_PASSWORD, rawOrigins, req, calls, up>>
  /\ UNCHANGED <<evars, cvars>>

\* the positions of the user-role messages of an array
UserPositions(arr) == { i \in 1..Len(arr) : arr[i].role = "user" }

\* a mistaken search: the first user-role message
FirstUser(arr) ==
  IF UserPositions(arr) = {} THEN Undefined
  ELSE arr[CHOOSE i \in UserPositions(arr) : \A j \in UserPositions(arr) : j >= i].content

\* arr.slice().reverse().find(m => m.role === "user"): the content of the last
\* user-role message, Undefined when there is none
LastUser(arr) ==
  IF UserPositions(arr) = {} THEN Undefined
  ELSE arr[CHOOSE i \in UserPositions(arr) : \A j \in UserPositions(arr) : j <= i].content

MockReply(content) == "Mock reply to: \"" \o content \o "\""
MockHello == "Mock hello from Errorify"

\* app.post("/api/chat-mock"): a messages value that is no array has no
\* reverse(), the handler throws and the framework answers 500
ChatMock ==
  /\ spc = "mock"
  /\ LET messages == req.body.messages
         lastUser == IF messages.kind = "arr" THEN LastUser(messages.arr) ELSE Undefined
     IN IF messages.kind = "str"
          THEN Respond(Response(500, "default", "TypeError", ""))
          ELSE Respond(Response(200, "json_envelope",
                        IF lastUser # Undefined THEN MockReply(lastUser) ELSE MockHello, ""))
  /\ UNCHANGED <<BOT_PASSWORD, rawOrigins, req, calls, up, authNext>>
  /\ UNCHANGED <<evars, cvars>>

Payload(model, messages) ==
  [model |-> model, messages |-> messages, max_tokens |-> MaxTokens]

\* app.post("/api/chat") up to the await of fetch(DEEPSEEK_API, ...)
ChatStart ==
  /\ spc = "chat"
  /\ IF req.body.kind = "none"
       THEN /\ Respond(Response(400, "json_error", "Request body required (JSON).", ""))
            /\ UNCHANGED calls
     ELSE IF req.body.messages.kind # "arr"
       THEN /\ Respond(Response(400, "json_error", "messages array required in request body.", ""))
            /\ UNCHANGED calls
     ELSE /\ calls' = Append(calls, Payload(Or(req.body.model, DEFAULT_MODEL),
                                            trimHistory(req.body.messages, TrimMax)))
          /\ Next_("await")
  /\ UNCHANGED <<BOT_PASSWORD, rawOrigins, req, up, authNext>>
  /\ UNCHANGED <<evars, cvars>>

\* a relay that answers every upstream failure with 502
RelayFailure502(status, text) ==
  Response(502, "text", text, "")

\* if (!response.ok) { try { res.status(s).json(JSON.parse(text)) }
\*                     catch { res.status(s).send(text) } }
RelayFailure(status, text) ==
  IF JSONparse(text).ok
    THEN Response(status, "json_value", JSONstringify(JSONparse(text)), "")
    ELSE Response(status, "text", text, "")

\* the upstream provider answers; the handler resumes after await response.text()
ChatReply(status, text) ==
  /\ spc = "await"
  /\ up' = [status |-> status, text |-> text]
  /\ IF ~IsOk(status)
       THEN Respond(RelayFailure(status, text))
       ELSE Respond(Response(200, "text", text, ""))
  /\ UNCHANGED <<BOT_PASSWORD, rawOrigins, req, calls, authNext>>
  /\ UNCHANGED <<evars, cvars>>

\* a handler that answers a rejected fetch by calling the provider again
ChatFaultRetry ==
  /\ spc = "await"
  /\ Len(calls) < 2
  /\ calls' = Append(calls, calls[1])
  /\ UNCHANGED <<BOT_PASSWORD, rawOrigins, req, spc, res, up, authNext>>
  /\ UNCHANGED <<evars, cvars>>

\* fetch rejects (the provider cannot be reached): the catch answers 500
ChatFault ==
  /\ spc = "await"
  /\ Respond(Response(500, "json_error", "server error", "fetch failed"))
  /\ UNCHANGED <<BOT_PASSWORD, rawOrigins, req, calls, up, authNext>>
  /\ UNCHANGED <<evars, cvars>>

\* the response has been sent; the proxy keeps nothing of the request
Finish ==
  /\ spc = "done"
  /\ req' = NoRequest
  /\ spc' = "idle"
  /\ res' = NoResponse
  /\ calls' = <<>>
  /\ up' = NoUpstream
  /\ authNext' = FALSE
  /\ UNCHANGED <<BOT_PASSWORD, rawOrigins>>
  /\ UNCHANGED <<evars, cvars>>

ProxyNext ==
  \/ \E r \in Requests : Receive(r)
  \/ Finish
  \/ JsonBody
  \/ Cors
  \/ RateLimit
  \/ requirePassword
  \/ ChatMock
  \/ ChatStart
  \/ \E s \in UpstreamStatuses, t \in UpstreamTexts : ChatReply(s, t)
  \/ ChatFault

(* ------------------------------------------------------------------ *)
(* Client: texts                                                       *)
(* ------------------------------------------------------------------ *)

\* A text is a sequence of characters; a fixed phrase of the program (a
\* prefix, a message) is written as one character.
Space == " "
IsSpace(c) == c = Space

RECURSIVE TrimStart(_)
TrimStart(t) ==
  IF t # <<>> /\ IsSpace(Head(t)) THEN TrimStart(Tail(t)) ELSE t

RECURSIVE TrimEnd(_)
TrimEnd(t) ==
  IF t # <<>> /\ IsSpace(t[Len(t)]) THEN TrimEnd(SubSeq(t, 1, Len(t) - 1)) ELSE t

\* String.prototype.trim
Trim(t) == TrimEnd(TrimStart(t))

\* text.split(/(\s+)/): the runs of non-whitespace and of whitespace in turn,
\* first and last a (possibly empty) run of non-whitespace
RECURSIVE SplitRuns(_, _, _, _)
SplitRuns(t, cur, curIsSpace, acc) ==
  IF t = <<>>
    THEN IF curIsSpace THEN acc \o <<cur, <<>>>> ELSE Append(acc, cur)
    ELSE IF IsSpace(Head(t)) = curIsSpace
      THEN SplitRuns(Tail(t), Append(cur, Head(t)), curIsSpace, acc)
      ELSE SplitRuns(Tail(t), <<Head(t)>>, ~curIsSpace, Append(acc, cur))

Split(t) == SplitRuns(t, <<>>, FALSE, <<>>)

RECURSIVE Concat(_)
Concat(tokens) ==
  IF tokens = <<>> THEN <<>> ELSE Head(tokens) \o Concat(Tail(tokens))

(* ------------------------------------------------------------------ *)
(* Client: the provider envelope and the extraction of the reply       *)
(* ------------------------------------------------------------------ *)

\* a JavaScript value: t is "undef", "str" (the text s) or "arr" (the texts a)
Undef == [t |-> "undef", s |-> <<>>, a |-> <<>>]
Str(s) == [t |-> "str", s |-> s, a |-> <<>>]
Arr(a) == [t |-> "arr", s |-> <<>>, a |-> a]

\* truthiness: undefined and "" are falsy, an array (even empty) is truthy
Truthy(v) == v.t = "arr" \/ (v.t = "str" /\ v.s # <<>>)

\* data.choices: "undef" (no choices), "empty" ([]), "nomsg" ([{}]),
\* "msg" ([{ message: { content } }], content Undef when the field is missing)
Choices(t, content) == [t |-> t, content |-> content]

Quote(s) == <<"\"">> \o s \o <<"\"">>

RECURSIVE JoinQuoted(_)
JoinQuoted(a) ==
  IF a = <<>> THEN <<>>
  ELSE IF Len(a) = 1 THEN Quote(a[1])
  ELSE Quote(a[1]) \o <<",">> \o JoinQuoted(Tail(a))

\* JSON.stringify of a value
StringifyValue(v) ==
  IF v.t = "str" THEN Quote(v.s) ELSE <<"[">> \o JoinQuoted(v.a) \o <<"]">>

StringifyChoices(c) ==
  CASE c.t = "empty" -> <<"[]">>
    [] c.t = "nomsg" -> <<"[{}]">>
    [] c.t = "msg" /\ c.content.t = "undef" -> <<"[{\"message\":{}}]">>
    [] OTHER -> <<"[{\"message\":{\"content\":">> \o StringifyValue(c.content) \o <<"}}]">>

\* the "name":value members of the envelope that are present
Members(env) ==
  (IF env.choices.t = "undef" THEN <<>>
   ELSE << <<"\"choices\":">> \o StringifyChoices(env.choices) >>)
  \o (IF env.output.t = "undef" THEN <<>>
      ELSE << <<"\"output\":">> \o StringifyValue(env.output) >>)
  \o (IF env.result.t = "undef" THEN <<>>
      ELSE << <<"\"result\":">> \o StringifyValue(env.result) >>)

RECURSIVE JoinComma(_)
JoinComma(parts) ==
  IF parts = <<>> THEN <<>>
  ELSE IF Len(parts) = 1 THEN parts[1]
  ELSE parts[1] \o <<",">> \o JoinComma(Tail(parts))

\* JSON.stringify(data)
Stringify(env) == <<"{">> \o JoinComma(Members(env)) \o <<"}">>

\* the value assigned to assistantText
Extract(env) ==
  IF env.choices.t = "msg" THEN env.choices.content
  ELSE IF Truthy(env.output)
    THEN IF env.output.t = "str" THEN env.output
         ELSE IF env.output.a # <<>> THEN Str(env.output.a[1])
         ELSE Str(StringifyValue(env.output))
  ELSE IF Truthy(env.result) THEN env.result
  ELSE Str(Stringify(env))

X == <<"X">>
Y == <<"Y">>

ChoicesValues ==
  { Choices("undef", Undef), Choices("empty", Undef), Choices("nomsg", Undef),
    Choices("msg", Undef), Choices("msg", Str(X)), Choices("msg", Str(<<>>)) }
OutputValues == { Undef, Str(<<>>), Str(X), Arr(<<>>), Arr(<<X, Y>>) }
ResultValues == { Undef, Str(<<>>), Str(Y) }

Envelopes == [choices : ChoicesValues, output : OutputValues, result : ResultValues]

NoEnvelope == [choices |-> Choices("undef", Undef), output |-> Undef, result |-> Undef]

\* const data = await res.json()
ParseEnvelope(d) ==
  /\ epc = "start"
  /\ data' = d
  /\ epc' = "parsed"
  /\ UNCHANGED assistantText
  /\ UNCHANGED <<pvars, cvars>>

\* the if / else if ladder that sets assistantText
ExtractText ==
  /\ epc = "parsed"
  /\ assistantText' = Extract(data)
  /\ epc' = "extracted"
  /\ UNCHANGED data
  /\ UNCHANGED <<pvars, cvars>>

\* the next successful response
NextEnvelope ==
  /\ epc = "extracted"
  /\ data' = NoEnvelope
  /\ assistantText' = Undef
  /\ epc' = "start"
  /\ UNCHANGED <<pvars, cvars>>

ExtractNext ==
  \/ \E d \in Envelopes : ParseEnvelope(d)
  \/ ExtractText
  \/ NextEnvelope

(* ------------------------------------------------------------------ *)
(* Client: the chat UI                                                 *)
(* ------------------------------------------------------------------ *)

\* sendMessage calls that issue a request
MaxTurns == 2

\* simulateStreaming(assistantText, onChunk, 22) and the safety timeout's
\* Math.max(600, Math.min(assistantText.length * 12, 3000))
Speed == 22
SafetyMin == 600
SafetyPerChar == 12
SafetyMax == 3000

SafetyDelay(text) == Max(SafetyMin, Min(Len(text) * SafetyPerChar, SafetyMax))

Greeting == <<"Hello, I'm Errorify. How can I help you today?">>
SystemPrompt == <<"You are Errorify, calm, helpful, and crisp.">>
HtmlNotice == <<"Server responded with an HTML error. Check backend URL.">>
FetchFailed == <<"Failed to fetch">>
SplitOfUndefined == <<"Cannot read properties of undefined (reading 'split')">>

\* what the user types
InputTexts == { <<Space>>, <<"h", "i">>, <<Space, "y", "o", Space>> }

\* a reply of the provider, three tokens long
ReplyTexts == { <<"a", Space, "b">> }

\* what fetch resolves to: "fail" (it rejects), "notok" (a non-success status
\* with a body text) or "ok" (a success whose body is the envelope env)
FetchResult(kind, body, env) == [kind |-> kind, body |-> body, env |-> env]

\* error bodies that are JSON: { "error": { "message": "bad key" } }, as the
\* provider sends and the proxy relays, and { "error": "Unauthorized" }, as
\* the proxy sends itself; the text between the fixed parts is one character
ErrorObjectBody == <<"{\"error\":{\"message\":\"", "bad key", "\"}}">>
ErrorStringBody == <<"{\"error\":\"", "Unauthorized", "\"}">>

FetchResults ==
  { FetchResult("fail", <<>>, NoEnvelope),
    FetchResult("notok", <<"b", "o", "o", "m">>, NoEnvelope),
    FetchResult("notok", <<Space, "<", "html", ">">>, NoEnvelope),
    FetchResult("notok", ErrorObjectBody, NoEnvelope),
    FetchResult("notok", ErrorStringBody, NoEnvelope),
    FetchResult("ok", <<>>, [NoEnvelope EXCEPT !.choices = Choices("msg", Undef)]) }
  \cup { FetchResult("ok", <<>>, [NoEnvelope EXCEPT !.choices = Choices("msg", Str(t))]) :
           t \in ReplyTexts }

\* a sendMessage call past its empty-input check.  pc is "fetch" (awaiting
\* the response), "anim" (simulateStreaming was started) or "end".
\*   sAt            the streaming state its closure captured
\*   tokens, i, cancelled, buffer   the variables of simulateStreaming and
\*                  of the onChunk closure
\*   tick, safety   ms until the pacing timer and the safety timeout fire
\*                  (-1: not pending)
\*   idx            the position of the placeholder message it appended
\*   timedOut, late the safety timeout has fired; tokens emitted since
\*   atCancel       the number of tokens emitted when it was cancelled (-1: not)
NewTurn(sAt) ==
  [ pc |-> "fetch", sAt |-> sAt, tokens |-> <<>>, i |-> 0, cancelled |-> FALSE,
    buffer |-> <<>>, tick |-> -1, safety |-> -1, idx |-> 0,
    timedOut |-> FALSE, late |-> 0, atCancel |-> -1 ]

ClientInit ==
  /\ conversation = <<Msg("system", SystemPrompt), Msg("assistant", Greeting)>>
  /\ input = <<>>
  /\ loading = FALSE
  /\ streaming = FALSE
  /\ streamCancel = 0
  /\ errorBanner = <<>>
  /\ turns = <<>>
  /\ requests = <<>>
  /\ data = NoEnvelope /\ assistantText = Undef /\ epc = "start"
  /\ BOT_PASSWORD = "" /\ rawOrigins = {} /\ req = NoRequest /\ spc = "idle"
  /\ res = NoResponse /\ calls = <<>> /\ up = NoUpstream /\ authNext = FALSE

\* appendMessage(role, content)
appendMessage(conv, role, content) == Append(conv, Msg(role, content))

\* the updater onChunk hands to setConversation: the last assistant message
\* takes the buffer as its content
AssistantPositions(conv) == { k \in 1..Len(conv) : conv[k].role = "assistant" }

UpdateLastAssistant(conv, buffer) ==
  IF AssistantPositions(conv) = {}
    THEN Append(conv, Msg("assistant", buffer))
    ELSE LET idx == CHOOSE k \in AssistantPositions(conv) :
                      \A j \in AssistantPositions(conv) : j <= k
         IN [conv EXCEPT ![idx].content = buffer]

\* onChange of the textarea
SetInput(v) ==
  /\ input' = v
  /\ UNCHANGED <<conversation, loading, streaming, streamCancel, errorBanner,
                 turns, requests>>
  /\ UNCHANGED <<pvars, evars>>

\* a sendMessage whose payload is the transcript without the new message
sendMessagePrior ==
  /\ Trim(input) = <<>> \/ Len(turns) < MaxTurns
  /\ errorBanner' = <<>>
  /\ IF Trim(input) = <<>>
       THEN UNCHANGED <<conversation, input, loading, turns, requests>>
       ELSE /\ conversation' = appendMessage(conversation, "user", Trim(input))
            /\ input' = <<>>
            /\ loading' = TRUE
            /\ requests' = Append(requests, conversation)
            /\ turns' = Append(turns, NewTurn(streaming))
  /\ UNCHANGED <<streaming, streamCancel>>
  /\ UNCHANGED <<pvars, evars>>

\* sendMessage up to its await of fetch
sendMessage ==
  /\ Trim(input) = <<>> \/ Len(turns) < MaxTurns
  /\ errorBanner' = <<>>
  /\ IF Trim(input) = <<>>
       THEN UNCHANGED <<conversation, input, loading, turns, requests>>
       ELSE /\ conversation' = appendMessage(conversation, "user", Trim(input))
            /\ input' = <<>>
            /\ loading' = TRUE
            /\ requests' = Append(requests, appendMessage(conversation, "user", Trim(input)))
            /\ turns' = Append(turns, NewTurn(streaming))
  /\ UNCHANGED <<streaming, streamCancel>>
  /\ UNCHANGED <<pvars, evars>>

\* onKeyDown of the textarea: Enter without Shift
PressEnter == sendMessage

\* onClick of the Send button, disabled={loading || streaming}
ClickSend ==
  /\ ~(loading \/ streaming)
  /\ sendMessage

\* the timers pending in the page, in ms from now
Pending ==
  { turns[k].tick : k \in { j \in 1..Len(turns) : turns[j].tick >= 0 } }
  \cup { turns[k].safety : k \in { j \in 1..Len(turns) : turns[j].safety >= 0 } }

IsNext(ms) == ms >= 0 /\ \A other \in Pending : ms <= other

\* ms pass on every pending timer
Elapse(ts, ms) ==
  [k \in 1..Len(ts) |->
     [ts[k] EXCEPT !.tick = IF @ >= 0 THEN @ - ms ELSE @,
                   !.safety = IF @ >= 0 THEN @ - ms ELSE @]]

\* the rest of sendMessage, once fetch has settled for turn k (no time has
\* passed on the pending timers since the previous event)
FetchSettles(k, r) ==
  /\ k \in 1..Len(turns)
  /\ turns[k].pc = "fetch"
  /\ loading' = FALSE
  /\ CASE r.kind = "fail" ->
            /\ conversation' = appendMessage(conversation, "assistant",
                                             <<"Network error: ">> \o FetchFailed)
            /\ errorBanner' = FetchFailed
            /\ turns' = [turns EXCEPT ![k].pc = "end"]
            /\ UNCHANGED <<streaming, streamCancel>>
       [] r.kind = "notok" ->
            LET msg == IF Trim(r.body) # <<>> /\ Head(Trim(r.body)) = "<"
                         THEN HtmlNotice ELSE r.body
            IN /\ conversation' = appendMessage(conversation, "assistant",
                                                <<"Error: ">> \o msg)
               /\ errorBanner' = msg
               /\ turns' = [turns EXCEPT ![k].pc = "end"]
               /\ UNCHANGED <<streaming, streamCancel>>
       [] OTHER ->
            LET text == Extract(r.env)
                tokens == Split(text.s)
            IN /\ streaming' = TRUE
               /\ IF text.t # "str"
                    \* text.split throws; the catch reports it as a network error
                    THEN /\ conversation' =
                              appendMessage(appendMessage(conversation, "assistant", <<>>),
                                            "assistant", <<"Network error: ">> \o SplitOfUndefined)
                         /\ errorBanner' = SplitOfUndefined
                         /\ turns' = [turns EXCEPT ![k].pc = "end"]
                         /\ UNCHANGED streamCancel
                    ELSE /\ conversation' =
                              UpdateLastAssistant(appendMessage(conversation, "assistant", <<>>),
                                                  tokens[1])
                         /\ turns' = [turns EXCEPT ![k] =
                              [@ EXCEPT !.pc = "anim", !.tokens = tokens, !.i = 1,
                                        !.buffer = tokens[1], !.tick = Speed,
                                        !.safety = SafetyDelay(text.s),
                                        !.idx = Len(conversation) + 1]]
                         /\ streamCancel' = k
                         /\ UNCHANGED errorBanner
  /\ UNCHANGED <<input, requests>>
  /\ UNCHANGED <<pvars, evars>>

\* the pacing timer of turn k's animation fires: run() goes round its loop
PacingTimer(k) ==
  /\ k \in 1..Len(turns)
  /\ IsNext(turns[k].tick)
  /\ LET t == Elapse(turns, turns[k].tick)[k]
     IN IF t.i < Len(t.tokens) /\ ~t.cancelled
          THEN /\ conversation' = UpdateLastAssistant(conversation, t.buffer \o t.tokens[t.i + 1])
               /\ turns' = [Elapse(turns, turns[k].tick) EXCEPT ![k] =
                    [t EXCEPT !.i = t.i + 1, !.buffer = t.buffer \o t.tokens[t.i + 1],
                              !.tick = Speed, !.late = IF t.timedOut THEN @ + 1 ELSE @]]
          ELSE /\ turns' = [Elapse(turns, turns[k].tick) EXCEPT ![k].tick = -1]
               /\ UNCHANGED conversation
  /\ UNCHANGED <<input, loading, streaming, streamCancel, errorBanner, requests>>
  /\ UNCHANGED <<pvars, evars>>

\* the safety timeout of turn k fires: if (streaming) { ... } reads the
\* streaming state sendMessage's closure captured
SafetyTimeout(k) ==
  /\ k \in 1..Len(turns)
  /\ IsNext(turns[k].safety)
  /\ turns' = [Elapse(turns, turns[k].safety) EXCEPT ![k].safety = -1, ![k].timedOut = TRUE]
  /\ IF turns[k].sAt
       THEN streaming' = FALSE /\ streamCancel' = 0
       ELSE UNCHANGED <<streaming, streamCancel>>
  /\ UNCHANGED <<conversation, input, loading, errorBanner, requests>>
  /\ UNCHANGED <<pvars, evars>>

\* onClick of the Stop button, rendered while streaming
stopStream ==
  /\ streaming
  /\ IF streamCancel # 0
       THEN /\ turns' = [turns EXCEPT ![streamCancel] =
                 [@ EXCEPT !.cancelled = TRUE,
                           !.atCancel = IF @ = -1 THEN turns[streamCancel].i ELSE @]]
            /\ streaming' = FALSE
            /\ streamCancel' = 0
       ELSE UNCHANGED <<turns, streaming, streamCancel>>
  /\ UNCHANGED <<conversation, input, loading, errorBanner, requests>>
  /\ UNCHANGED <<pvars, evars>>

ClientNext ==
  \/ \E v \in InputTexts : SetInput(v)
  \/ PressEnter
  \/ ClickSend
  \/ \E k \in 1..MaxTurns, r \in FetchResults : FetchSettles(k, r)
  \/ \E k \in 1..MaxTurns : PacingTimer(k)
  \/ \E k \in 1..MaxTurns : SafetyTimeout(k)
  \/ stopStream

ClientSpec == ClientInit /\ [][ClientNext]_vars

\* The browser runs every timer callback that is due and settles every
\* fetch; what the user does is left open.
ClientFairSpec ==
  /\ ClientSpec
  /\ WF_vars(\E k \in 1..MaxTurns, r \in FetchResults : FetchSettles(k, r))
  /\ WF_vars(\E k \in 1..MaxTurns : PacingTimer(k))
  /\ WF_vars(\E k \in 1..MaxTurns : SafetyTimeout(k))

(* ------------------------------------------------------------------ *)
(* Proxy: claims                                                       *)
(* ------------------------------------------------------------------ *)

\* a POST /api/chat request, a secret configured, neither the header nor
\* the query value equal to it
NoMatchingPassword ==
  /\ req.route = "/api/chat"
  /\ BOT_PASSWORD # ""
  /\ req.header # BOT_PASSWORD
  /\ req.pw # BOT_PASSWORD

\* the request was answered by a middleware that runs before requirePassword
RejectedEarlier ==
  \/ res.status = 400 /\ res.kind = "default" /\ req.body.kind = "bad"
  \/ res.status = 403 /\ req.origin # Undefined /\ req.origin \notin rawOrigins
  \/ res.status = 429 /\ res.kind = "default"

\* C1 as stated: with a secret configured, every POST /api/chat request
\* without a matching header or query value is answered 401 and makes no
\* upstream call.
C1_Original ==
  (NoMatchingPassword /\ spc = "done") => (res.status = 401 /\ calls = <<>>)

\* C1 amended: with a secret configured, a POST /api/chat request without a
\* matching header or query value never reaches the handler and never makes
\* an upstream call; it is answered 401 unless a middleware that runs before
\* the password check has already answered it (400 for a body that does not
\* parse, 403 for an origin that is not allowed, 429 from the rate limiter).
C1_Unauthorized ==
  NoMatchingPassword =>
    /\ calls = <<>>
    /\ up = NoUpstream
    /\ spc \notin {"chat", "await"}
    /\ spc = "done" => ((res.status = 401 /\ res.kind = "json_error") \/ RejectedEarlier)

C1_Witness ==
  /\ NoMatchingPassword
  /\ spc = "done"
  /\ req.header = "wrong"
  /\ req.body.messages.kind = "arr"
  /\ Len(req.body.messages.arr) > 0
  /\ res = Response(401, "json_error", "Unauthorized", "")

\* C2: with a secret configured a request passes requirePassword exactly when
\* its header value or its query value equals the secret (so a matching
\* query value passes whatever the header is); with none configured every
\* request passes.
C2_Original ==
  (req.route = "/api/chat" /\ (authNext \/ res.status = 401)) =>
    (authNext <=> ( \/ BOT_PASSWORD = ""
                    \/ req.header = BOT_PASSWORD
                    \/ req.pw = BOT_PASSWORD ))

\* C3: the transcript forwarded upstream is the last 12 messages of the
\* accepted array in their order, the whole array when it has 12 or fewer,
\* and so ends with the client's last message; one payload per request.
C3_Window ==
  /\ (spc = "await" \/ up # NoUpstream) => Len(calls) = 1
  /\ calls # <<>> =>
       LET a == req.body.messages.arr
           w == calls[1].messages
       IN /\ req.body.messages.kind = "arr"
          /\ Len(a) > 12 => /\ Len(w) = 12
                            /\ \A i \in 1..12 : w[i] = a[Len(a) - 12 + i]
          /\ Len(a) <= 12 => w = a
          /\ Len(a) > 0 => w[Len(w)] = a[Len(a)]

C3_Witness ==
  /\ spc = "await"
  /\ Len(req.body.messages.arr) = 13
  /\ Len(calls) = 1
  /\ calls[1].messages[1].content = "m2"
  /\ calls[1].messages[12].content = "m13"

\* C4: an upstream answer with a non-success status s and body b is relayed
\* with status s, its body b re-serialized when b parses as JSON and b itself
\* otherwise.
C4_Relay ==
  (spc = "done" /\ up.status # 0 /\ ~IsOk(up.status)) =>
    /\ res.status = up.status
    /\ JSONparse(up.text).ok =>
         (res.kind = "json_value" /\ res.a = JSONstringify(JSONparse(up.text)))
    /\ ~JSONparse(up.text).ok => (res.kind = "text" /\ res.a = up.text)
    /\ up.text = "boom" => res.a = "boom"
    /\ up.text \in {"{\"error\":\"boom\"}", "{ \"error\" : \"boom\" }"} =>
         res.a = "{\"error\":\"boom\"}"

C4_Witness ==
  /\ spc = "done"
  /\ up = [status |-> 500, text |-> "boom"]
  /\ res = Response(500, "text", "boom", "")

\* the mock handler answered with the envelope
MockAnswered ==
  /\ req.route = "/api/chat-mock"
  /\ spc = "done"
  /\ res.kind = "json_envelope"

\* C5 as stated: the content of every envelope the mock endpoint returns is
\* Mock reply to: "<c>", c the content of the last user-role message.
C5_Original ==
  MockAnswered =>
    \E i \in 1..Len(req.body.messages.arr) :
      /\ req.body.messages.arr[i].role = "user"
      /\ res.a = "Mock reply to: \"" \o req.body.messages.arr[i].content \o "\""

\* C5 amended: the mock endpoint never calls upstream; a request that reaches
\* its handler with a messages array (or none) gets status 200 and the
\* envelope, whose content is Mock reply to: "<c>" for the last user-role
\* message c when there is one and "Mock hello from Errorify" when there is
\* none.
C5_Mock ==
  req.route = "/api/chat-mock" =>
    /\ calls = <<>>
    /\ up = NoUpstream
    /\ spc = "done" =>
         \/ RejectedEarlier
         \/ res.status = 500 /\ req.body.messages.kind = "str"
         \/ /\ res.status = 200
            /\ res.kind = "json_envelope"
            /\ req.body.messages.kind # "str"
            /\ LET arr == req.body.messages.arr
               IN IF \E i \in 1..Len(arr) : arr[i].role = "user"
                    THEN \E i \in 1..Len(arr) :
                           /\ arr[i].role = "user"
                           /\ \A j \in (i + 1)..Len(arr) : arr[j].role # "user"
                           /\ res.a = "Mock reply to: \"" \o arr[i].content \o "\""
                    ELSE res.a = "Mock hello from Errorify"

C5_Witness ==
  /\ MockAnswered
  /\ Len(req.body.messages.arr) = 4
  /\ res.a = "Mock reply to: \"m3\""

\* the request got past the middleware and the /api/chat handler ran
ChatHandled == spc = "done" /\ req.route = "/api/chat" /\ authNext

\* the handler's own answers when the body or its messages array is missing
MissingField ==
  { Response(400, "json_error", "Request body required (JSON).", ""),
    Response(400, "json_error", "messages array required in request body.", "") }

\* what the handler answers in every case but a provider answer
ChatValidated ==
  /\ (spc \in {"chat", "await"}) => res = NoResponse
  /\ Len(calls) <= 1
  /\ ChatHandled =>
       /\ res.status # 0
       /\ (req.body.kind = "none" \/ req.body.messages.kind # "arr") =>
            (res \in MissingField /\ calls = <<>>)
       /\ (req.body.kind # "none" /\ req.body.messages.kind = "arr") => Len(calls) = 1
       /\ (calls # <<>> /\ up.status = 0) =>
            (res.status = 500 /\ res.kind = "json_error" /\ res.a = "server error")

\* C13 as stated: a request that reaches the /api/chat handler gets one
\* response: 400 naming the missing field and no upstream call, 500 on a
\* fault, otherwise the status the provider answered with; at most one
\* upstream call is made.
C13_Original ==
  /\ ChatValidated
  /\ (ChatHandled /\ up.status # 0) => res.status = up.status

\* C13: as above, but a provider answer with a success status is passed on
\* with status 200 and its body verbatim; only a failure keeps its status.
C13_Handled ==
  /\ ChatValidated
  /\ (ChatHandled /\ up.status # 0 /\ ~IsOk(up.status)) => res.status = up.status
  /\ (ChatHandled /\ IsOk(up.status)) => res = Response(200, "text", up.text, "")

\* the provider could not be reached and the handler answered 500
C13_Witness ==
  /\ ChatHandled
  /\ Len(calls) = 1
  /\ up.status = 0
  /\ res = Response(500, "json_error", "server error", "fetch failed")

(* ------------------------------------------------------------------ *)
(* Client: claims about the extraction                                 *)
(* ------------------------------------------------------------------ *)

\* C6: the extracted text is choices[0].message.content if that shape is
\* present, else output (the string, or the first element of the array),
\* else result, and the serialization of the whole envelope whenever none of
\* these shapes matches (a message without content, an empty output); it is
\* always a text.
C6_Original ==
  epc = "extracted" =>
    /\ assistantText.t = "str"
    /\ assistantText.s =
         IF data.choices.t = "msg" /\ data.choices.content.t = "str"
           THEN data.choices.content.s
         ELSE IF data.output.t = "str" /\ data.output.s # <<>> THEN data.output.s
         ELSE IF data.output.t = "arr" /\ data.output.a # <<>> THEN data.output.a[1]
         ELSE IF data.result.t = "str" /\ data.result.s # <<>> THEN data.result.s
         ELSE Stringify(data)

(* ------------------------------------------------------------------ *)
(* Client: claims about the chat UI                                    *)
(* ------------------------------------------------------------------ *)

\* turn k's request is pending, or its reply animation has tokens left to
\* emit and has not been cancelled
InProgress(k) ==
  \/ turns[k].pc = "fetch"
  \/ turns[k].pc = "anim" /\ turns[k].tick >= 0 /\ ~turns[k].cancelled

\* C7: at most one turn is in progress at a time: no sendMessage turn starts
\* while an earlier turn's request is pending or its animation is running.
C7_Original ==
  \A j, k \in 1..Len(turns) : (InProgress(j) /\ InProgress(k)) => j = k

\* C8: once the safety timeout of a reply has fired, without the user
\* cancelling, the streaming state is false and no further token is emitted.
C8_Original ==
  (Len(turns) = 1 /\ turns[1].timedOut /\ ~turns[1].cancelled) =>
    (~streaming /\ turns[1].late = 0)

\* C9: the message created for a reply holds the concatenation of the tokens
\* emitted so far; after a cancel at N tokens no token is added, and an
\* animation that ran to its end without a cancel leaves the full text.
C9_Original ==
  \A k \in 1..Len(turns) :
    turns[k].pc = "anim" =>
      /\ conversation[turns[k].idx].content = Concat(SubSeq(turns[k].tokens, 1, turns[k].i))
      /\ turns[k].atCancel >= 0 => turns[k].i = turns[k].atCancel
      /\ (turns[k].atCancel < 0 /\ turns[k].tick < 0) =>
           conversation[turns[k].idx].content = Concat(turns[k].tokens)

\* C10: sendMessage on input that is empty or only whitespace changes
\* nothing: no message, no request, and the error banner, the loading flag
\* and the input text stay as they are.
C10_Original ==
  [][ (Trim(input) = <<>> /\ (PressEnter \/ ClickSend)) =>
        UNCHANGED <<conversation, requests, errorBanner, loading, input>> ]_vars

\* the user-role messages of a transcript
UserCount(conv) == Cardinality({ k \in 1..Len(conv) : conv[k].role = "user" })

\* a sendMessage call, from the Enter key or the Send button, on input that
\* is not blank
SendsText == Trim(input) # <<>> /\ (PressEnter \/ ClickSend)

\* C11: a sendMessage call on input that is not blank appends exactly one
\* user message carrying the trimmed text, and the payload it hands to fetch
\* is the prior transcript followed by that message; no other step adds a
\* user message or issues a request.
C11_UserAppend ==
  [][ /\ SendsText =>
           /\ conversation' = Append(conversation, Msg("user", Trim(input)))
           /\ requests' = Append(requests, Append(conversation, Msg("user", Trim(input))))
      /\ ~SendsText =>
           /\ UserCount(conversation') = UserCount(conversation)
           /\ requests' = requests ]_vars

\* a second turn was sent from padded input, after the first one's reply
C11_Witness ==
  /\ Len(requests) = 2
  /\ requests[2][Len(requests[2])] = Msg("user", <<"y", "o">>)
  /\ Len(requests[2]) >= 5
  /\ conversation[Len(requests[2])] = Msg("user", <<"y", "o">>)

\* the error text the client is said to compute from the body of a
\* non-success response
ClaimedErrorText(body) ==
  IF Trim(body) # <<>> /\ Head(Trim(body)) = "<" THEN HtmlNotice
  ELSE IF Len(body) = 3 /\ body[1] = ErrorObjectBody[1] /\ body[3] = ErrorObjectBody[3]
    THEN <<body[2]>>
  ELSE body

\* C12: on a non-success response the error text is the fixed notice for an
\* HTML body, else error.message of a JSON body that has it, else the raw
\* body; it is appended as an assistant message prefixed "Error: ", set as
\* the banner, and loading is reset.
C12_Original ==
  [][ \A k \in 1..MaxTurns :
        \A r \in { x \in FetchResults : x.kind = "notok" } :
          FetchSettles(k, r) =>
            /\ conversation' = Append(conversation,
                                      Msg("assistant", <<"Error: ">> \o ClaimedErrorText(r.body)))
            /\ errorBanner' = ClaimedErrorText(r.body)
            /\ loading' = FALSE ]_vars

\* the reply of a turn sent while nothing was loading or streaming, as the
\* Send button requires, is being animated and no other turn was sent
ButtonTurnStreaming ==
  /\ Len(turns) = 1
  /\ ~turns[1].sAt
  /\ turns[1].pc = "anim"
  /\ streaming

\* C14: after a turn sent with the Send button got a successful response,
\* streaming eventually becomes false again, whether or not the user presses
\* Stop, so the Send button is enabled again.
C14_Original == ButtonTurnStreaming ~> ~streaming

(* ------------------------------------------------------------------ *)
(* Specifications                                                      *)
(* ------------------------------------------------------------------ *)

ProxyInit ==
  /\ BOT_PASSWORD \in {"", Secret}
  /\ rawOrigins \in {{}, {AppOrigin}}
  /\ req = NoRequest
  /\ spc = "idle"
  /\ res = NoResponse
  /\ calls = <<>>
  /\ up = NoUpstream
  /\ authNext = FALSE
  /\ data = NoEnvelope /\ assistantText = Undef /\ epc = "start"
  /\ conversation = <<>> /\ input = <<>> /\ loading = FALSE /\ streaming = FALSE
  /\ streamCancel = 0 /\ errorBanner = <<>> /\ turns = <<>> /\ requests = <<>>

ProxySpec == ProxyInit /\ [][ProxyNext]_vars

ExtractInit ==
  /\ data = NoEnvelope
  /\ assistantText = Undef
  /\ epc = "start"
  /\ BOT_PASSWORD = "" /\ rawOrigins = {} /\ req = NoRequest /\ spc = "idle"
  /\ res = NoResponse /\ calls = <<>> /\ up = NoUpstream /\ authNext = FALSE
  /\ conversation = <<>> /\ input = <<>> /\ loading = FALSE /\ streaming = FALSE
  /\ streamCancel = 0 /\ errorBanner = <<>> /\ turns = <<>> /\ requests = <<>>

ExtractSpec == ExtractInit /\ [][ExtractNext]_vars

====
